---- MODULE Spec2Model ----
(***************************************************************************)
(* Model of kaijup (src/src/kaijup.cpp): the orchestrator thread of main,  *)
(* the record parser it contains (FASTA / FASTQ, strip), the bounded work  *)
(* queue it pushes to and the worker threads that pop from it; before      *)
(* these, the reading and checking of the command line and the filling in  *)
(* of the Config object.                                                   *)
(*                                                                         *)
(* Characters are one-character strings, a std::string is a sequence of    *)
(* characters, an ifstream is a record of the file's bytes, the get        *)
(* position (1-based) and the eofbit / failbit flags.                      *)
(***************************************************************************)
EXTENDS Integers, Sequences, FiniteSets, TLC

\* ------------------------------------------------------------------------
\* Bounds of the model
\* ------------------------------------------------------------------------
\* most lines of the primary input in the parser specification
MaxLines == 8
\* most lines of the primary input in the pipeline specification
MaxPipeLines == 4
\* most lines of either input in paired mode, in the pipeline specification
MaxPairedLines == 1
\* most lines of either input in paired mode, in the parser specification
MaxParsePairedLines == 3
\* largest value of num_threads (-z)
MaxThreads == 2
\* most options on the command line
MaxArgs == 3
\* the queue's capacity; the program constructs it with 500 (kaijup.cpp:198)
Capacity == 2

\* ------------------------------------------------------------------------
\* Characters and strings
\* ------------------------------------------------------------------------
NL == "\n"
\* the value of Traits::eof(), returned by peek()
EOFCHAR == "EOF"
\* the terminating charT() that front() of an empty string refers to
NUL == "NUL"

\* kaijup.cpp:330  inline bool isalpha(char & c)
isalpha(c) == c \in {"a", "b", "r", "A", "C"}

\* s with the character at index i (1-based) removed: string::erase(iterator)
EraseAt(s, i) == SubSeq(s, 1, i - 1) \o SubSeq(s, i + 1, Len(s))

\* kaijup.cpp:334  void strip(string &s): the iterator is the index it; after
\* an erase the iterator is decremented and the loop's ++it re-examines the
\* character that moved into the erased position.  With it at begin() the
\* decrement yields the index 0 (one before begin()), which ++it brings back.
RECURSIVE stripLoop(_, _)
stripLoop(s, it) ==
    IF it = Len(s) + 1 THEN s
    ELSE IF ~isalpha(s[it]) THEN stripLoop(EraseAt(s, it), (it - 1) + 1)
         ELSE stripLoop(s, it + 1)

RECURSIVE stripLoop_noDecrement(_, _)
stripLoop_noDecrement(s, it) ==
    IF it >= Len(s) + 1 THEN s
    ELSE IF ~isalpha(s[it]) THEN stripLoop_noDecrement(EraseAt(s, it), it + 1)
         ELSE stripLoop_noDecrement(s, it + 1)

strip_noDecrement(s) == stripLoop_noDecrement(s, 1)
strip(s) == stripLoop(s, 1)

\* ------------------------------------------------------------------------
\* Input files
\* ------------------------------------------------------------------------
\* the lines input files are made of: an empty line, a FASTA header, a FASTQ
\* header, and a sequence line with leading, adjacent and inner non-letters
LineSet ==
    { <<>>,
      <<">", "r", "1">>,
      <<"@", "r", "2">>,
      <<"1", "-", "A", "2", "C">> }

RECURSIVE SeqsUpTo(_, _)
SeqsUpTo(S, n) ==
    IF n = 0 THEN { <<>> }
    ELSE LET shorter == SeqsUpTo(S, n - 1)
         IN  shorter \cup { Append(q, x) : q \in { r \in shorter : Len(r) = n - 1 }, x \in S }

RECURSIVE JoinLines(_, _)
\* the bytes of a file whose lines are ls; the last line ends in a newline
\* iff nl
JoinLines(ls, nl) ==
    IF ls = <<>> THEN <<>>
    ELSE IF Len(ls) = 1 THEN (IF nl THEN Append(ls[1], NL) ELSE ls[1])
    ELSE Append(ls[1], NL) \o JoinLines(Tail(ls), nl)

\* a file: its lines and whether the last one is terminated.  An
\* unterminated empty last line is no line at all, so it is left out.
FilesUpTo(n) ==
    { f \in [kind : {"file"}, lines : SeqsUpTo(LineSet, n), nl : BOOLEAN] :
        /\ f.lines = <<>> => f.nl
        /\ (f.lines # <<>> /\ ~f.nl) => f.lines[Len(f.lines)] # <<>> }

Bytes(f) == JoinLines(f.lines, f.nl)

\* ------------------------------------------------------------------------
\* std::ifstream
\* ------------------------------------------------------------------------
ClosedStream == [data |-> <<>>, pos |-> 1, eof |-> FALSE, fail |-> FALSE, open |-> FALSE]
OpenStream(bytes) == [data |-> bytes, pos |-> 1, eof |-> FALSE, fail |-> FALSE, open |-> TRUE]

good(st) == st.open /\ ~st.eof /\ ~st.fail

\* index of the first newline at or after position p, 0 if there is none
RECURSIVE FindNL(_, _)
FindNL(data, p) ==
    IF p > Len(data) THEN 0
    ELSE IF data[p] = NL THEN p
    ELSE FindNL(data, p + 1)

\* std::getline(st, str): when the sentry fails (the stream is not good) it
\* sets failbit and leaves str as it was; otherwise str is erased and
\* characters are extracted up to and excluding the newline, or up to the end
\* of the file, which sets eofbit, and failbit too if nothing was extracted.
getline(st, str) ==
    IF ~good(st) THEN [st |-> [st EXCEPT !.fail = TRUE], str |-> str, ok |-> FALSE]
    ELSE LET j == FindNL(st.data, st.pos)
         IN  IF j # 0
             THEN [st  |-> [st EXCEPT !.pos = j + 1],
                   str |-> SubSeq(st.data, st.pos, j - 1),
                   ok  |-> TRUE]
             ELSE LET rest == SubSeq(st.data, st.pos, Len(st.data))
                  IN  [st  |-> [st EXCEPT !.pos = Len(st.data) + 1,
                                          !.eof = TRUE,
                                          !.fail = (rest = <<>>)],
                       str |-> rest,
                       ok  |-> rest # <<>>]

\* st.ignore(numeric_limits<streamsize>::max(), '\n')
ignore(st) ==
    IF ~good(st) THEN [st EXCEPT !.fail = TRUE]
    ELSE LET j == FindNL(st.data, st.pos)
         IN  IF j # 0 THEN [st EXCEPT !.pos = j + 1]
             ELSE [st EXCEPT !.pos = Len(st.data) + 1, !.eof = TRUE]

\* st.peek()
peek(st) ==
    IF ~good(st) THEN [st |-> [st EXCEPT !.fail = TRUE], c |-> EOFCHAR]
    ELSE IF st.pos > Len(st.data) THEN [st |-> [st EXCEPT !.eof = TRUE], c |-> EOFCHAR]
    ELSE [st |-> st, c |-> st.data[st.pos]]

\* st.seekg(0, ios::beg): clears eofbit, then repositions unless fail()
seekg_noop(st) == st
seekg(st) ==
    LET cleared == [st EXCEPT !.eof = FALSE]
    IN  IF cleared.fail \/ ~cleared.open THEN cleared
        ELSE [cleared EXCEPT !.pos = 1]

\* ------------------------------------------------------------------------
\* The record parser inside main's producer loops
\* ------------------------------------------------------------------------
\* kaijup.cpp:260-263  while(!(in1_file.peek()=='>' || in1_file.peek()==EOF))
\*                       { getline(in1_file,line_from_file); sequence1.append(...) }
\* peek() is evaluated a second time only when the first is not '>'.
RECURSIVE FastaBody(_, _, _)
FastaBody(st, line, seq) ==
    LET p1 == peek(st)
        p2 == peek(p1.st)
    IN  IF p1.c = ">" THEN [st |-> p1.st, line |-> line, seq |-> seq]
        ELSE IF p2.c = EOFCHAR THEN [st |-> p2.st, line |-> line, seq |-> seq]
        ELSE LET g == getline(p2.st, line)
             IN  FastaBody(g.st, g.str, seq \o g.str)

\* kaijup.cpp:245-252 (and 278-285): the sequence line, then two ignored lines
FastqBody_oneIgnore(st, line, seq) ==
    LET g == getline(st, line)
        l == strip(g.str)
    IN  [st |-> ignore(g.st), line |-> l, seq |-> l]
FastqBody(st, line, seq) ==
    LET g == getline(st, line)
        l == strip(g.str)
    IN  [st |-> ignore(ignore(g.st)), line |-> l, seq |-> l]

\* kaijup.cpp:240-265 (and 273-298): the body of one iteration of a producer
\* loop, after the loop condition's getline has put the header into line.
\* hdr is the header line, body the stream the rest of the record is read
\* from.  Erasing begin() of an empty string is undefined: outcome "ub".
RecordBody(isFQ, hdr, body, seq) ==
    IF hdr = <<>> THEN [outcome |-> "ub", st |-> body, line |-> hdr, name |-> hdr, seq |-> seq]
    ELSE LET nm == Tail(hdr)
         IN  IF isFQ
             THEN LET b == FastqBody(body, nm, seq)
                  IN  [outcome |-> "item", st |-> b.st, line |-> b.line,
                       name |-> nm, seq |-> b.seq]
             ELSE LET b == FastaBody(body, nm, <<>>)
                  IN  [outcome |-> "item", st |-> b.st, line |-> b.line,
                       name |-> nm, seq |-> strip(b.seq)]

\* ------------------------------------------------------------------------
\* State
\* ------------------------------------------------------------------------
VARIABLES
    pc,             \* the orchestrator's position in main
    num_threads,    \* -z
    in1_filename,   \* what -i names: a file, or NoFile when it cannot be opened
    in2_filename,   \* what -j names: NotGiven, NoFile, or a file
    in1_file,       \* ifstream in1_file
    in2_file,       \* ifstream in2_file
    isFastQ,
    paired,
    line_from_file,
    name,
    sequence1,
    myWorkQueue,    \* the ProducerConsumerQueue<ReadItem*>
    threads,        \* std::deque<std::thread>: the workers not yet joined
    wstate,         \* per worker: "none", "pop", "work" or "done"
    witem,          \* per worker: the ReadItem* it holds, or NoItem
    pushed,         \* history: the items pushed, in order
    popped,         \* history: the items popped, in order
    spawned,        \* history: how many threads were started
    signals,        \* history: how many times pushedLast was called
    argv,           \* the options of the command line, in order
    optind,         \* getopt's index of the next option
    locals,         \* main's other option variables (mode, min_score, ...)
    config,         \* the Config object: the fields assigned so far
    live,           \* the heap objects main has allocated and not deleted
    out_log         \* history: what was done to the output sink, in order

vars == <<pc, num_threads, in1_filename, in2_filename, in1_file, in2_file,
          isFastQ, paired, line_from_file, name, sequence1, myWorkQueue,
          threads, wstate, witem, pushed, popped, spawned, signals,
          argv, optind, locals, config, live, out_log>>

parserVars == <<in1_file, in2_file, isFastQ, paired, line_from_file, name, sequence1>>
workerVars == <<threads, wstate, witem, popped, spawned>>
inputVars == <<num_threads, in1_filename, in2_filename, argv, optind, locals>>
lifeVars == <<config, live, out_log>>

NoFile == [kind |-> "nofile"]
NotGiven == [kind |-> "notgiven"]
NoItem == [id |-> 0]
Workers == 1..MaxThreads

\* the process has ended (exit, or a crash caused by undefined behaviour)
Dead == pc \in {"usage", "exit_failure", "crash"}

\* ------------------------------------------------------------------------
\* ProducerConsumerQueue (ProducerConsumerQueue.hpp is not part of the
\* sources; modelled from the specification, sections 3 and 4.2)
\* ------------------------------------------------------------------------
NewQueue(c) == [items |-> <<>>, maxSize |-> c, last |-> FALSE]
\* push blocks while the queue holds maxSize items
CanPush(q) == Len(q.items) < q.maxSize
\* push inserts the item at the tail
QPush_atHead(q, x) == [q EXCEPT !.items = <<x>> \o @]
QPush(q, x) == [q EXCEPT !.items = Append(@, x)]
\* pop blocks while the queue is empty and not yet closed
CanPop(q) == q.items # <<>>
\* pop returns the item at the head
QFront(q) == Head(q.items)
QPop(q) == [q EXCEPT !.items = Tail(@)]
\* pop reports "no more work" once completion is signalled and nothing is left
NoMoreWork(q) == q.items = <<>> /\ q.last
QPushedLast(q) == [q EXCEPT !.last = TRUE]

\* main before line 198: no queue yet
NoQueue == [items |-> <<>>, maxSize |-> 0, last |-> FALSE]

\* kaijup.cpp:198  new ProducerConsumerQueue<ReadItem*>(500)
QueueAtConstruction_oneMore == NewQueue(Capacity + 1)
QueueAtConstruction_noRoom == NewQueue(0)
QueueAtConstruction == NewQueue(Capacity)

ReadItem_reused(n, s, k) == [id |-> 1, name |-> n, seq |-> s, stream |-> k]

\* kaijup.cpp:266 / 300  new ReadItem(name, sequence1); id is the identity of
\* the allocated object, stream the loop that allocated it
ReadItem(n, s, k) == [id |-> Len(pushed) + 1, name |-> n, seq |-> s, stream |-> k]

\* ------------------------------------------------------------------------
\* The command line
\* ------------------------------------------------------------------------
\* what an option's argument is: text, or the file a path names
Text(s) == [kind |-> "text", chars |-> s]
IndexFile == [kind |-> "index"]
OutFile == [kind |-> "out"]

INT_MAX == 2147483647
DigitChars == <<"0", "1", "2", "3", "4", "5", "6", "7", "8", "9">>
IsDigit(c) == \E i \in DOMAIN DigitChars : DigitChars[i] = c
DigitVal(c) == (CHOOSE i \in DOMAIN DigitChars : DigitChars[i] = c) - 1

\* the digits that std::stoi converts, up to the first other character;
\* ok is FALSE when the value leaves the range of int
RECURSIVE stoiDigits(_, _)
stoiDigits(d, acc) ==
    IF d = <<>> \/ ~IsDigit(d[1]) THEN [ok |-> TRUE, val |-> acc]
    ELSE IF acc > (INT_MAX - DigitVal(d[1])) \div 10 THEN [ok |-> FALSE, val |-> acc]
    ELSE stoiDigits(Tail(d), acc * 10 + DigitVal(d[1]))

\* std::stoi: an optional sign and the longest run of digits; throws
\* invalid_argument when there is no digit and out_of_range when the value
\* does not fit an int (leading white space and INT_MIN itself are left out)
stoi(s) ==
    LET signed == s # <<>> /\ s[1] \in {"-", "+"}
        d == IF signed THEN Tail(s) ELSE s
        r == stoiDigits(d, 0)
    IN  IF d = <<>> \/ ~IsDigit(d[1]) THEN [err |-> "invalid_argument", val |-> 0]
        ELSE IF ~r.ok THEN [err |-> "out_of_range", val |-> 0]
        ELSE [err |-> "none", val |-> IF s[1] = "-" THEN 0 - r.val ELSE r.val]

\* kaijup.cpp:82-140  try { x = stoi(optarg); } catch(...) { cerr << ... }:
\* both handlers print a message and leave x as it was
TryStoi(optarg, x) == IF stoi(optarg.chars).err = "none" THEN stoi(optarg.chars).val ELSE x

\* kaijup.cpp:62-65  the names -a accepts, MEM and GREEDYBLOSUM
ModeOf(optarg) ==
    CASE optarg.chars = <<"m", "e", "m">> -> "MEM"
      [] optarg.chars = <<"g", "r", "e", "e", "d", "y", "b", "l", "o", "s", "u", "m">> -> "GREEDYBLOSUM"
      [] optarg.chars = <<"g", "r", "e", "e", "d", "y">> -> "GREEDYBLOSUM"
      [] OTHER -> "invalid"

\* kaijup.cpp:59  the option letters of the getopt string that have a case
\* in the switch; every other letter reaches default
Handled == {"a", "h", "d", "v", "o", "f", "i", "j", "l", "s", "m", "e", "z"}

\* kaijup.cpp:38-52  main's locals before the options are read
DefaultLocals ==
    [mode |-> "MEM", min_score |-> 65, min_fragment_length |-> 11,
     seed_length |-> 7, mismatches |-> 0, verbose |-> FALSE, debug |-> FALSE,
     fmi_filename |-> NotGiven, output_filename |-> NotGiven]

\* the options and arguments the command lines are made of
Nines == [i \in 1..10 |-> "9"]
TwoLines == [kind |-> "file", lines |-> <<<<">", "r", "1">>, <<"1", "-", "A", "2", "C">>>>, nl |-> TRUE]
OptionSet ==
    {[opt |-> "z", arg |-> Text(a)] : a \in {<<"2">>, <<"0">>, <<"x">>, Nines}}
    \cup {[opt |-> c, arg |-> Text(<<"0">>)] : c \in {"s", "m"}}
    \cup {[opt |-> "e", arg |-> Text(<<"-", "1">>)], [opt |-> "l", arg |-> Text(<<"6">>)]}
    \cup {[opt |-> "a", arg |-> Text(a)] : a \in {<<"g", "r", "e", "e", "d", "y">>, <<"x">>}}
    \cup {[opt |-> "f", arg |-> a] : a \in {IndexFile, NoFile}}
    \cup {[opt |-> c, arg |-> TwoLines] : c \in {"i", "j"}}
    \cup {[opt |-> "o", arg |-> a] : a \in {OutFile, NoFile}}
    \cup {[opt |-> c, arg |-> NotGiven] : c \in {"h", "d", "v", "r"}}

RECURSIVE ArgvUpTo(_)
ArgvUpTo(n) ==
    IF n = 0 THEN {<<>>}
    ELSE ArgvUpTo(n - 1) \cup
         {Append(a, o) : a \in {b \in ArgvUpTo(n - 1) : Len(b) = n - 1}, o \in OptionSet}

\* a command line that gives main the locals it has at line 198
CommandLine(z, i, j, o) ==
    <<[opt |-> "f", arg |-> IndexFile], [opt |-> "i", arg |-> i],
      [opt |-> "z", arg |-> Text(<<DigitChars[z + 1]>>)]>>
    \o (IF j = NotGiven THEN <<>> ELSE <<[opt |-> "j", arg |-> j]>>)
    \o (IF o = NotGiven THEN <<>> ELSE <<[opt |-> "o", arg |-> o]>>)

\* ------------------------------------------------------------------------
\* The Run Configuration and the output sink
\* ------------------------------------------------------------------------
\* kaijup.cpp:37  new Config(): no field has been assigned yet; config is
\* the function from the fields assigned so far to their values
NewConfig == [f \in {} |-> FALSE]
Assign(c, f, v) == [x \in DOMAIN c \cup {f} |-> IF x = f THEN v ELSE c[x]]
ConfigFields ==
    {"mode", "debug", "verbose", "min_score", "min_fragment_length",
     "seed_length", "mismatches", "bwt", "fmi", "init", "out_stream"}

\* kaijup.cpp:165-171  the options are copied into the configuration
SetFields_noMode(c, l) ==
    Assign(Assign(Assign(Assign(Assign(Assign(c,
        "debug", l.debug),
        "verbose", l.verbose),
        "min_score", l.min_score),
        "min_fragment_length", l.min_fragment_length),
        "seed_length", l.seed_length),
        "mismatches", l.mismatches)

SetFields(c, l) ==
    Assign(Assign(Assign(Assign(Assign(Assign(Assign(c,
        "mode", l.mode),
        "debug", l.debug),
        "verbose", l.verbose),
        "min_score", l.min_score),
        "min_fragment_length", l.min_fragment_length),
        "seed_length", l.seed_length),
        "mismatches", l.mismatches)

\* kaijup.cpp:178-185  the index read from the FMI file, then config->init()
SetIndex(c) == Assign(Assign(Assign(c, "bwt", "b"), "fmi", "b->f"), "init", TRUE)

\* kaijup.cpp:187-196  the output sink: the ofstream when -o names a file,
\* std::cout otherwise
SetSink(c, l) ==
    Assign(c, "out_stream",
           IF l.output_filename # NotGiven THEN "read2id_file" ELSE "cout")

\* kaijup.cpp:319-323  what main does to the sink after the join loop
SinkShutdown(l) ==
    IF l.output_filename # NotGiven THEN <<"flush", "close", "delete">> ELSE <<"flush">>

\* ------------------------------------------------------------------------
\* Initial states
\* ------------------------------------------------------------------------
\* main's options, configuration and heap objects at line 198, for an output
\* sink o (NotGiven: std::cout)
ConfiguredWith(o) ==
    /\ locals = [DefaultLocals EXCEPT !.fmi_filename = IndexFile, !.output_filename = o]
    /\ argv = CommandLine(num_threads, in1_filename, in2_filename, o)
    /\ optind = Len(argv) + 1
    /\ config = SetSink(SetIndex(SetFields(NewConfig, locals)), locals)
    /\ live = {"config", "myWorkQueue"} \cup (IF o = NotGiven THEN {} ELSE {"read2id_file"})
    /\ out_log = <<>>

\* the state of main at line 198, the options read and validated
\* (num_threads > 0, an input file named), whatever the inputs are
InitLocals ==
    /\ in1_file = ClosedStream
    /\ in2_file = ClosedStream
    /\ isFastQ = FALSE
    /\ paired = FALSE
    /\ line_from_file = <<>>
    /\ name = <<>>
    /\ sequence1 = <<>>
    /\ myWorkQueue = QueueAtConstruction
    /\ threads = <<>>
    /\ wstate = [w \in Workers |-> "none"]
    /\ witem = [w \in Workers |-> NoItem]
    /\ pushed = <<>>
    /\ popped = <<>>
    /\ spawned = 0
    /\ signals = 0

Init ==
    /\ pc = "spawn"
    /\ num_threads \in 1..MaxThreads
    /\ \/ /\ in1_filename \in FilesUpTo(MaxPipeLines) \cup {NoFile}
          /\ in2_filename = NotGiven
       \/ /\ in1_filename \in FilesUpTo(MaxPairedLines)
          /\ in2_filename \in FilesUpTo(MaxPairedLines) \cup {NoFile}
    /\ InitLocals
    /\ ConfiguredWith(NotGiven)

\* ------------------------------------------------------------------------
\* The orchestrator: main
\* ------------------------------------------------------------------------
\* kaijup.cpp:59-145  one iteration of the getopt loop: the switch on the
\* next option; usage() prints the help text and exits
GetOpt ==
    /\ pc = "getopt"
    /\ optind <= Len(argv)
    /\ LET c == argv[optind].opt
           optarg == argv[optind].arg
       IN  /\ optind' = optind + 1
           /\ pc' = IF \/ c = "a" /\ ModeOf(optarg) = "invalid"
                       \/ c = "h"
                       \/ c \notin Handled
                    THEN "usage" ELSE "getopt"
           /\ locals' =
                CASE c = "a" -> IF ModeOf(optarg) = "invalid" THEN locals
                                ELSE [locals EXCEPT !.mode = ModeOf(optarg)]
                  [] c = "d" -> [locals EXCEPT !.debug = TRUE]
                  [] c = "v" -> [locals EXCEPT !.verbose = TRUE]
                  [] c = "o" -> [locals EXCEPT !.output_filename = optarg]
                  [] c = "f" -> [locals EXCEPT !.fmi_filename = optarg]
                  [] c = "l" -> [locals EXCEPT !.seed_length = TryStoi(optarg, @)]
                  [] c = "s" -> [locals EXCEPT !.min_score = TryStoi(optarg, @)]
                  [] c = "m" -> [locals EXCEPT !.min_fragment_length = TryStoi(optarg, @)]
                  [] c = "e" -> [locals EXCEPT !.mismatches = TryStoi(optarg, @)]
                  [] OTHER -> locals
           /\ num_threads' = IF c = "z" THEN TryStoi(optarg, num_threads) ELSE num_threads
           /\ in1_filename' = IF c = "i" THEN optarg ELSE in1_filename
           /\ in2_filename' = IF c = "j" THEN optarg ELSE in2_filename
    /\ UNCHANGED <<argv, lifeVars, parserVars, myWorkQueue, workerVars, pushed, signals>>

\* kaijup.cpp:146-152  the checks on the options once getopt returns -1,
\* each of which ends in usage()
Validate ==
    /\ pc = "getopt"
    /\ optind > Len(argv)
    /\ pc' = IF \/ locals.min_score <= 0
                \/ num_threads <= 0
                \/ locals.min_fragment_length <= 0
                \/ locals.mismatches < 0
                \/ locals.seed_length < 7
                \/ locals.fmi_filename = NotGiven
                \/ in1_filename = NotGiven
             THEN "usage" ELSE "config"
    /\ UNCHANGED <<inputVars, lifeVars, parserVars, myWorkQueue, workerVars, pushed, signals>>

\* kaijup.cpp:165-171  config->mode = mode; ... config->mismatches = mismatches
SetConfig ==
    /\ pc = "config"
    /\ config' = SetFields(config, locals)
    /\ pc' = "index"
    /\ UNCHANGED <<inputVars, live, out_log, parserVars, myWorkQueue, workerVars, pushed, signals>>

\* kaijup.cpp:173-185  open and read the FMI file, set config->bwt and
\* config->fmi, config->init(); usage() when the file cannot be opened
ReadIndex ==
    /\ pc = "index"
    /\ IF locals.fmi_filename = NoFile
       THEN /\ pc' = "usage"
            /\ UNCHANGED config
       ELSE /\ config' = SetIndex(config)
            /\ pc' = "output"
    /\ UNCHANGED <<inputVars, live, out_log, parserVars, myWorkQueue, workerVars, pushed, signals>>

\* kaijup.cpp:187-196  the output sink: a new ofstream opened on the -o
\* file (exit when it cannot be opened), or std::cout
OpenOutput ==
    /\ pc = "output"
    /\ IF locals.output_filename = NotGiven
       THEN /\ config' = SetSink(config, locals)
            /\ pc' = "queue"
            /\ UNCHANGED live
       ELSE /\ live' = live \cup {"read2id_file"}
            /\ IF locals.output_filename = NoFile
               THEN /\ pc' = "exit_failure"
                    /\ UNCHANGED config
               ELSE /\ config' = SetSink(config, locals)
                    /\ pc' = "queue"
    /\ UNCHANGED <<inputVars, out_log, parserVars, myWorkQueue, workerVars, pushed, signals>>

\* kaijup.cpp:198  myWorkQueue = new ProducerConsumerQueue<ReadItem*>(500)
ConstructQueue ==
    /\ pc = "queue"
    /\ myWorkQueue' = QueueAtConstruction
    /\ live' = live \cup {"myWorkQueue"}
    /\ pc' = "spawn"
    /\ UNCHANGED <<inputVars, config, out_log, parserVars, workerVars, pushed, signals>>

\* kaijup.cpp:201-205  one iteration of the loop that starts the workers
SpawnWorker ==
    /\ pc = "spawn"
    /\ LET i == Len(threads) + 1
       IN  /\ threads' = Append(threads, i)
           /\ wstate' = [wstate EXCEPT ![i] = "pop"]
           /\ spawned' = spawned + 1
           /\ pc' = IF i = num_threads THEN "open" ELSE "spawn"
    /\ UNCHANGED <<inputVars, lifeVars, parserVars, myWorkQueue, witem, pushed, popped, signals>>

\* kaijup.cpp:207-215  open the input files; exit when one cannot be opened
OpenInputs ==
    /\ pc = "open"
    /\ IF in1_filename = NoFile
       THEN /\ pc' = "exit_failure"
            /\ UNCHANGED <<in1_file, in2_file, paired>>
       ELSE /\ in1_file' = OpenStream(Bytes(in1_filename))
            /\ IF in2_filename = NotGiven
               THEN /\ pc' = "detect"
                    /\ UNCHANGED <<in2_file, paired>>
               ELSE IF in2_filename = NoFile
               THEN /\ pc' = "exit_failure"
                    /\ UNCHANGED <<in2_file, paired>>
               ELSE /\ in2_file' = OpenStream(Bytes(in2_filename))
                    /\ paired' = TRUE
                    /\ pc' = "detect"
    /\ UNCHANGED <<inputVars, lifeVars, isFastQ, line_from_file, name, sequence1,
                   myWorkQueue, workerVars, pushed, signals>>

\* kaijup.cpp:223  line_from_file.front(): undefined on an empty string; a
\* build either reads the terminating NUL or stops on a library assertion
FrontOutcomes(s) == IF s = <<>> THEN {NUL, "ub"} ELSE {s[1]}

\* kaijup.cpp:218-231  format auto-detection on the first line of in1_file
Detect ==
    /\ pc = "detect"
    /\ LET g == getline(in1_file, line_from_file)
       IN  /\ line_from_file' = g.str
           /\ \E fileTypeIdentifier \in FrontOutcomes(g.str) :
                IF fileTypeIdentifier = "ub"
                THEN /\ pc' = "crash"
                     /\ in1_file' = g.st
                     /\ UNCHANGED isFastQ
                ELSE IF fileTypeIdentifier = "@"
                THEN /\ isFastQ' = TRUE
                     /\ in1_file' = seekg(g.st)
                     /\ pc' = "loop1"
                ELSE IF fileTypeIdentifier # ">"
                THEN /\ pc' = "exit_failure"
                     /\ in1_file' = g.st
                     /\ UNCHANGED isFastQ
                ELSE /\ in1_file' = seekg(g.st)
                     /\ pc' = "loop1"
                     /\ UNCHANGED isFastQ
    /\ UNCHANGED <<inputVars, lifeVars, in2_file, paired, name, sequence1,
                   myWorkQueue, workerVars, pushed, signals>>

\* kaijup.cpp:239-265  the loop condition and the body of one iteration of
\* the loop over in1_file, up to the push
Iteration1_readsSecond ==
    LET g == getline(in2_file, line_from_file)
    IN  IF ~g.ok
        THEN [outcome |-> "end", in1 |-> in1_file, in2 |-> g.st,
              line |-> g.str, name |-> name, seq |-> sequence1]
        ELSE LET r == RecordBody(isFastQ, g.str, in1_file, sequence1)
             IN  [outcome |-> r.outcome, in1 |-> r.st, in2 |-> g.st,
                  line |-> r.line, name |-> r.name, seq |-> r.seq]

Iteration1 ==
    LET g == getline(in1_file, line_from_file)
    IN  IF ~g.ok
        THEN [outcome |-> "end", in1 |-> g.st, in2 |-> in2_file,
              line |-> g.str, name |-> name, seq |-> sequence1]
        ELSE LET r == RecordBody(isFastQ, g.str, g.st, sequence1)
             IN  [outcome |-> r.outcome, in1 |-> r.st, in2 |-> in2_file,
                  line |-> r.line, name |-> r.name, seq |-> r.seq]

\* kaijup.cpp:272-298  the same for the loop over in2_file: the header comes
\* from in2_file, the rest of the record is read from in1_file
Iteration2 ==
    LET g == getline(in2_file, line_from_file)
    IN  IF ~g.ok
        THEN [outcome |-> "end", in1 |-> in1_file, in2 |-> g.st,
              line |-> g.str, name |-> name, seq |-> sequence1]
        ELSE LET r == RecordBody(isFastQ, g.str, in1_file, sequence1)
             IN  [outcome |-> r.outcome, in1 |-> r.st, in2 |-> g.st,
                  line |-> r.line, name |-> r.name, seq |-> r.seq]

\* the effect of an iteration on the parser's variables
Parsed(it) ==
    /\ in1_file' = it.in1
    /\ in2_file' = it.in2
    /\ line_from_file' = it.line
    /\ name' = it.name
    /\ sequence1' = it.seq

\* kaijup.cpp:268-270  where main goes when the first loop ends
AfterLoop1_skipSecond(p) == "pushedLast"
AfterLoop1(p) == IF p THEN "loop2" ELSE "pushedLast"

\* kaijup.cpp:239-265  read the next record of the first stream
Read1 ==
    /\ pc = "loop1"
    /\ Parsed(Iteration1)
    /\ pc' = CASE Iteration1.outcome = "end" -> AfterLoop1(paired)
               [] Iteration1.outcome = "ub" -> "crash"
               [] Iteration1.outcome = "item" -> "push1"
    /\ UNCHANGED <<inputVars, lifeVars, isFastQ, paired, myWorkQueue, workerVars, pushed, signals>>

Push1_thenSignal ==
    /\ pc = "push1"
    /\ CanPush(myWorkQueue)
    /\ myWorkQueue' = QPushedLast(QPush(myWorkQueue, ReadItem(name, sequence1, 1)))
    /\ pushed' = Append(pushed, ReadItem(name, sequence1, 1))
    /\ signals' = signals + 1
    /\ pc' = "loop1"
    /\ UNCHANGED <<inputVars, lifeVars, parserVars, workerVars>>

\* kaijup.cpp:266  myWorkQueue->push(new ReadItem(name, sequence1))
Push1 ==
    /\ pc = "push1"
    /\ CanPush(myWorkQueue)
    /\ myWorkQueue' = QPush(myWorkQueue, ReadItem(name, sequence1, 1))
    /\ pushed' = Append(pushed, ReadItem(name, sequence1, 1))
    /\ pc' = "loop1"
    /\ UNCHANGED <<inputVars, lifeVars, parserVars, workerVars, signals>>

\* kaijup.cpp:272-298  read the next record of the second stream
Read2 ==
    /\ pc = "loop2"
    /\ Parsed(Iteration2)
    /\ pc' = CASE Iteration2.outcome = "end" -> "pushedLast"
               [] Iteration2.outcome = "ub" -> "crash"
               [] Iteration2.outcome = "item" -> "push2"
    /\ UNCHANGED <<inputVars, lifeVars, isFastQ, paired, myWorkQueue, workerVars, pushed, signals>>

\* kaijup.cpp:300  myWorkQueue->push(new ReadItem(name, sequence1))
Push2 ==
    /\ pc = "push2"
    /\ CanPush(myWorkQueue)
    /\ myWorkQueue' = QPush(myWorkQueue, ReadItem(name, sequence1, 2))
    /\ pushed' = Append(pushed, ReadItem(name, sequence1, 2))
    /\ pc' = "loop2"
    /\ UNCHANGED <<inputVars, lifeVars, parserVars, workerVars, signals>>

PushedLast_noSignal ==
    /\ pc = "pushedLast"
    /\ in1_file' = [in1_file EXCEPT !.open = FALSE]
    /\ in2_file' = IF paired THEN [in2_file EXCEPT !.open = FALSE] ELSE in2_file
    /\ pc' = "join"
    /\ UNCHANGED <<inputVars, lifeVars, isFastQ, paired, line_from_file, name, sequence1,
                   myWorkQueue, signals, workerVars, pushed>>

PushedLast_flushes ==
    /\ pc = "pushedLast"
    /\ myWorkQueue' = QPushedLast(myWorkQueue)
    /\ signals' = signals + 1
    /\ in1_file' = [in1_file EXCEPT !.open = FALSE]
    /\ in2_file' = IF paired THEN [in2_file EXCEPT !.open = FALSE] ELSE in2_file
    /\ out_log' = Append(out_log, "flush")
    /\ pc' = "join"
    /\ UNCHANGED <<inputVars, config, live, isFastQ, paired, line_from_file, name,
                   sequence1, workerVars, pushed>>

\* kaijup.cpp:306-309  myWorkQueue->pushedLast(), then close the input files
PushedLast ==
    /\ pc = "pushedLast"
    /\ myWorkQueue' = QPushedLast(myWorkQueue)
    /\ signals' = signals + 1
    /\ in1_file' = [in1_file EXCEPT !.open = FALSE]
    /\ in2_file' = IF paired THEN [in2_file EXCEPT !.open = FALSE] ELSE in2_file
    /\ pc' = "join"
    /\ UNCHANGED <<inputVars, lifeVars, isFastQ, paired, line_from_file, name, sequence1,
                   workerVars, pushed>>

\* kaijup.cpp:312  threads.front().join() returns once that thread has ended
Joinable_any(w) == TRUE
Joinable(w) == wstate[w] = "done"

\* kaijup.cpp:311-316  join the oldest thread and drop it from the deque
Join ==
    /\ pc = "join"
    /\ threads # <<>>
    /\ Joinable(Head(threads))
    /\ threads' = Tail(threads)
    /\ UNCHANGED <<pc, inputVars, lifeVars, parserVars, myWorkQueue, wstate, witem,
                   pushed, popped, spawned, signals>>

Finish_noJoin ==
    /\ pc = "join"
    /\ out_log' = out_log \o SinkShutdown(locals)
    /\ live' = live \ {"read2id_file", "myWorkQueue", "config"}
    /\ pc' = "done"
    /\ UNCHANGED <<inputVars, config, parserVars, myWorkQueue, workerVars, pushed, signals>>

\* kaijup.cpp:317-327  once the deque of threads is empty: flush the output
\* sink, close and delete it when it is a file, delete the queue and the
\* configuration, return
Finish ==
    /\ pc = "join"
    /\ threads = <<>>
    /\ out_log' = out_log \o SinkShutdown(locals)
    /\ live' = live \ {"read2id_file", "myWorkQueue", "config"}
    /\ pc' = "done"
    /\ UNCHANGED <<inputVars, config, parserVars, myWorkQueue, workerVars, pushed, signals>>

\* ------------------------------------------------------------------------
\* The workers (ConsumerThreadp.hpp is not part of the sources; doWork is
\* modelled from the specification, section 4.3)
\* ------------------------------------------------------------------------
\* pop returns an item
WorkerPop(w) ==
    /\ ~Dead
    /\ wstate[w] = "pop"
    /\ CanPop(myWorkQueue)
    /\ witem' = [witem EXCEPT ![w] = QFront(myWorkQueue)]
    /\ popped' = Append(popped, [item |-> QFront(myWorkQueue), worker |-> w])
    /\ myWorkQueue' = QPop(myWorkQueue)
    /\ wstate' = [wstate EXCEPT ![w] = "work"]
    /\ UNCHANGED <<pc, inputVars, lifeVars, parserVars, threads, pushed, spawned, signals>>

\* the Classifier is invoked on the item and appends its result to the
\* output sink of the configuration; the item is then discarded
WorkerClassify(w) ==
    /\ ~Dead
    /\ wstate[w] = "work"
    /\ out_log' = Append(out_log, "write")
    /\ witem' = [witem EXCEPT ![w] = NoItem]
    /\ wstate' = [wstate EXCEPT ![w] = "pop"]
    /\ UNCHANGED <<pc, inputVars, config, live, parserVars, myWorkQueue, threads,
                   pushed, popped, spawned, signals>>

\* pop reports "no more work" and the worker returns
WorkerExit(w) ==
    /\ ~Dead
    /\ wstate[w] = "pop"
    /\ NoMoreWork(myWorkQueue)
    /\ wstate' = [wstate EXCEPT ![w] = "done"]
    /\ UNCHANGED <<pc, inputVars, lifeVars, parserVars, myWorkQueue, threads, witem,
                   pushed, popped, spawned, signals>>

Orchestrator ==
    \/ SpawnWorker
    \/ OpenInputs
    \/ Detect
    \/ Read1
    \/ Push1
    \/ Read2
    \/ Push2
    \/ PushedLast
    \/ Join
    \/ Finish

Worker(w) ==
    \/ WorkerPop(w)
    \/ WorkerClassify(w)
    \/ WorkerExit(w)

Next ==
    \/ Orchestrator
    \/ \E w \in Workers : Worker(w)

Spec == Init /\ [][Next]_vars

\* ------------------------------------------------------------------------
\* main from its first line: the options are read and checked, the
\* configuration is filled in, then the pipeline runs
\* ------------------------------------------------------------------------
ConfigInit ==
    /\ pc = "getopt"
    /\ argv \in ArgvUpTo(MaxArgs)
    /\ optind = 1
    /\ locals = DefaultLocals
    /\ num_threads = 1
    /\ in1_filename = NotGiven
    /\ in2_filename = NotGiven
    /\ config = NewConfig
    /\ live = {"config"}
    /\ out_log = <<>>
    /\ in1_file = ClosedStream
    /\ in2_file = ClosedStream
    /\ isFastQ = FALSE
    /\ paired = FALSE
    /\ line_from_file = <<>>
    /\ name = <<>>
    /\ sequence1 = <<>>
    /\ myWorkQueue = NoQueue
    /\ threads = <<>>
    /\ wstate = [w \in Workers |-> "none"]
    /\ witem = [w \in Workers |-> NoItem]
    /\ pushed = <<>>
    /\ popped = <<>>
    /\ spawned = 0
    /\ signals = 0

Configure ==
    \/ GetOpt
    \/ Validate
    \/ SetConfig
    \/ ReadIndex
    \/ OpenOutput
    \/ ConstructQueue

ConfigNext ==
    \/ Configure
    \/ Orchestrator
    \/ \E w \in Workers : Worker(w)

ConfigSpec == ConfigInit /\ [][ConfigNext]_vars

\* ------------------------------------------------------------------------
\* The parser on its own: main's producer loops from line 218 on, with the
\* input files open and every push completing at once (the queue is left
\* out; pushed records what was handed to it)
\* ------------------------------------------------------------------------
ParseInit ==
    /\ pc = "detect"
    /\ num_threads = 1
    /\ \/ /\ in1_filename \in FilesUpTo(MaxLines)
          /\ in2_filename = NotGiven
       \/ /\ in1_filename \in FilesUpTo(MaxParsePairedLines)
          /\ in2_filename \in FilesUpTo(MaxParsePairedLines)
    /\ in1_file = OpenStream(Bytes(in1_filename))
    /\ in2_file = IF in2_filename = NotGiven THEN ClosedStream
                  ELSE OpenStream(Bytes(in2_filename))
    /\ paired = (in2_filename # NotGiven)
    /\ isFastQ = FALSE
    /\ line_from_file = <<>>
    /\ name = <<>>
    /\ sequence1 = <<>>
    /\ myWorkQueue = QueueAtConstruction
    /\ threads = <<>>
    /\ wstate = [w \in Workers |-> "none"]
    /\ witem = [w \in Workers |-> NoItem]
    /\ pushed = <<>>
    /\ popped = <<>>
    /\ spawned = 0
    /\ signals = 0
    /\ ConfiguredWith(NotGiven)

\* kaijup.cpp:239-268  one iteration of the loop over in1_file, push included
ParseRecord1 ==
    /\ pc = "loop1"
    /\ Parsed(Iteration1)
    /\ pc' = CASE Iteration1.outcome = "end" -> AfterLoop1(paired)
               [] Iteration1.outcome = "ub" -> "crash"
               [] Iteration1.outcome = "item" -> "loop1"
    /\ pushed' = IF Iteration1.outcome = "item"
                 THEN Append(pushed, ReadItem(Iteration1.name, Iteration1.seq, 1))
                 ELSE pushed
    /\ UNCHANGED <<inputVars, lifeVars, isFastQ, paired, myWorkQueue, workerVars, signals>>

\* kaijup.cpp:272-302  one iteration of the loop over in2_file, push included
ParseRecord2 ==
    /\ pc = "loop2"
    /\ Parsed(Iteration2)
    /\ pc' = CASE Iteration2.outcome = "end" -> "pushedLast"
               [] Iteration2.outcome = "ub" -> "crash"
               [] Iteration2.outcome = "item" -> "loop2"
    /\ pushed' = IF Iteration2.outcome = "item"
                 THEN Append(pushed, ReadItem(Iteration2.name, Iteration2.seq, 2))
                 ELSE pushed
    /\ UNCHANGED <<inputVars, lifeVars, isFastQ, paired, myWorkQueue, workerVars, signals>>

ParseNext ==
    \/ Detect
    \/ ParseRecord1
    \/ ParseRecord2

ParseSpec == ParseInit /\ [][ParseNext]_vars

\* kaijup.cpp:306-327  main from pushedLast() to its return
Shutdown ==
    \/ PushedLast
    \/ Join
    \/ Finish

\* every thread that can run is eventually scheduled and the Classifier
\* returns: the workers take their steps, and so does main once its input
\* is exhausted
FairSpec ==
    /\ Spec
    /\ WF_vars(Shutdown)
    /\ \A w \in Workers : WF_vars(Worker(w))

\* ------------------------------------------------------------------------
\* Reference definitions used by the properties
\* ------------------------------------------------------------------------
Range(q) == { q[i] : i \in DOMAIN q }
Count(q, x) == Cardinality({ i \in DOMAIN q : q[i] = x })
IsPrefix(p, q) == Len(p) <= Len(q) /\ \A i \in DOMAIN p : p[i] = q[i]
PoppedItems == [i \in DOMAIN popped |-> popped[i].item]
SpawnedWorkers == 1..num_threads

\* the (identifier, sequence) pairs pushed by the loop over stream k
FromStream1(x) == x.stream = 1
FromStream2(x) == x.stream = 2
NameSeq(q) == [i \in DOMAIN q |-> [name |-> q[i].name, seq |-> q[i].seq]]
Pushed1 == NameSeq(SelectSeq(pushed, FromStream1))
Pushed2 == NameSeq(SelectSeq(pushed, FromStream2))

\* the alphabetic characters among those of LineSet
Alphabetic(c) == c \notin {"@", ">", "1", "2", "-", NL}
Letters(s) == SelectSeq(s, Alphabetic)

RECURSIVE Concat(_)
Concat(ls) == IF ls = <<>> THEN <<>> ELSE Head(ls) \o Concat(Tail(ls))

StartsWith(l, c) == l # <<>> /\ l[1] = c
In1Lines == in1_filename.lines
FirstLine == IF In1Lines = <<>> THEN <<>> ELSE In1Lines[1]

\* the position of the first byte of line i of a file made of lines ls
RECURSIVE LineStart(_, _)
LineStart(ls, i) == IF i = 1 THEN 1 ELSE LineStart(ls, i - 1) + Len(ls[i - 1]) + 1

\* ------------------------------------------------------------------------
\* Properties of the pipeline (Spec, FairSpec)
\* ------------------------------------------------------------------------
\* C1: in every state no item has been popped more often than it was pushed,
\* and when the run has reached normal completion the multiset of the items
\* popped by the workers equals the multiset of the items pushed.
C1_NoLossNoDuplication ==
    /\ \A x \in Range(PoppedItems) : Count(PoppedItems, x) <= Count(pushed, x)
    /\ pc = "done" =>
         \A x \in Range(pushed) \cup Range(PoppedItems) :
            Count(PoppedItems, x) = Count(pushed, x)

\* a completed run in which two workers shared at least three items
C1_Witness ==
    /\ pc = "done"
    /\ Len(pushed) >= 3
    /\ \E i, j \in DOMAIN popped : popped[i].worker # popped[j].worker

\* C2: a worker has been told "no more work" only if completion was
\* signalled, the queue is empty and every item pushed so far has been
\* returned by a pop.
C2_Drain ==
    \A w \in Workers :
        wstate[w] = "done" =>
            /\ signals >= 1
            /\ myWorkQueue.last
            /\ myWorkQueue.items = <<>>
            /\ Range(pushed) = Range(PoppedItems)

\* a worker left after items were still queued when completion was signalled
C2_Witness ==
    /\ \E w \in Workers : wstate[w] = "done"
    /\ \E w \in Workers : wstate[w] = "work"
    /\ Len(pushed) >= 2

\* C3: the queue never holds more than Capacity items; while it holds
\* Capacity items the pending push does not complete and its item is kept,
\* and a push that completes appends exactly the pending item.
C3_Backpressure ==
    /\ [](Len(myWorkQueue.items) <= Capacity)
    /\ [][ /\ (pc \in {"push1", "push2"} /\ Len(myWorkQueue.items) = Capacity)
              => (pc' = pc /\ pushed' = pushed /\ name' = name /\ sequence1' = sequence1)
           /\ (pc \in {"push1", "push2"} /\ pc' # pc)
              => /\ Len(pushed') = Len(pushed) + 1
                 /\ pushed'[Len(pushed')].name = name
                 /\ pushed'[Len(pushed')].seq = sequence1
                 /\ myWorkQueue'.items = Append(myWorkQueue.items, pushed'[Len(pushed')])
         ]_vars

\* the producer waits in push with the queue full, and an item that had to
\* wait that way earlier has since been inserted
C3_Witness ==
    /\ pc = "push1"
    /\ Len(myWorkQueue.items) = Capacity
    /\ Len(pushed) > Capacity

\* C4: the items are popped in the order they were pushed: the j-th pop
\* returns the j-th item pushed, whichever worker performs it.
C4_Fifo == IsPrefix(PoppedItems, pushed)

\* three pops in push order, served by two different workers
C4_Witness ==
    /\ Len(popped) >= 3
    /\ popped[1].worker # popped[2].worker
    /\ num_threads = 2

\* C5: under fair scheduling, once the input is exhausted every spawned
\* worker ends, the join loop completes and main reaches its final state.
C5_CleanShutdown ==
    (pc \in {"pushedLast", "join"}) ~>
        (pc = "done" /\ threads = <<>> /\ \A w \in SpawnedWorkers : wstate[w] = "done")

\* main has returned after joining two workers, one of which never got an
\* item and waited in pop until completion was signalled
C5_Witness ==
    /\ pc = "done"
    /\ num_threads = 2
    /\ threads = <<>>
    /\ \A w \in SpawnedWorkers : wstate[w] = "done"
    /\ \E w \in SpawnedWorkers : \A i \in DOMAIN popped : popped[i].worker # w

\* C6: pushedLast is called at most once, exactly once on every run that
\* gets past its input, only when every configured stream is exhausted, and
\* nothing is pushed after it.
C6_SignalOnce ==
    /\ [](/\ signals <= 1
          /\ pc \in {"join", "done"} => signals = 1
          /\ myWorkQueue.last => (in1_file.fail /\ (paired => in2_file.fail)))
    /\ [][myWorkQueue.last => pushed' = pushed]_vars

\* a paired run that pushed from both streams and signalled once
C6_Witness ==
    /\ pc = "done"
    /\ signals = 1
    /\ paired
    /\ Pushed1 # <<>>
    /\ Pushed2 # <<>>

\* C7: when main exits because an input cannot be opened or the format is
\* not recognised, no worker thread has been started.
C7_NoWorkerAtStartupAbort == pc = "exit_failure" => spawned = 0

\* ------------------------------------------------------------------------
\* Properties of the parser (ParseSpec)
\* ------------------------------------------------------------------------
\* C8: once detection has run on a first line that has a first character,
\* '@' has selected FASTQ and '>' FASTA without aborting, any other character
\* has aborted the run; right after a successful detection the stream is
\* good and back at its first byte, and the first item pushed is named after
\* the first line.
C8_FormatDetection ==
    (pc \notin {"spawn", "open", "detect"} /\ FirstLine # <<>>) =>
        /\ FirstLine[1] = "@" => (isFastQ /\ pc # "exit_failure")
        /\ FirstLine[1] = ">" => (~isFastQ /\ pc # "exit_failure")
        /\ FirstLine[1] \notin {"@", ">"} => (pc = "exit_failure" /\ pushed = <<>>)
        /\ (pc = "loop1" /\ pushed = <<>>) => (in1_file.pos = 1 /\ good(in1_file))
        /\ Pushed1 # <<>> => Pushed1[1].name = Tail(FirstLine)

\* detection has succeeded on a file made of one unterminated line, where
\* reading the first line ran into the end of the file
C8_Witness ==
    /\ pc = "loop1"
    /\ pushed = <<>>
    /\ isFastQ
    /\ in1_file.pos = 1
    /\ Len(In1Lines) = 1
    /\ ~in1_filename.nl

\* the records of a FASTA file: one per line that starts with '>', named by
\* the rest of that line, its sequence the letters of the lines up to the
\* next such line
RECURSIVE BodyLength(_, _)
BodyLength(ls, i) ==
    IF i > Len(ls) \/ StartsWith(ls[i], ">") THEN 0 ELSE 1 + BodyLength(ls, i + 1)

RECURSIVE FastaRecords(_)
FastaRecords(ls) ==
    IF ls = <<>> THEN <<>>
    ELSE LET n == BodyLength(ls, 2)
         IN  <<[name |-> Tail(ls[1]), seq |-> Letters(Concat(SubSeq(ls, 2, n + 1)))]>>
             \o FastaRecords(SubSeq(ls, n + 2, Len(ls)))

\* C9: for an input whose first line starts with '>', the items pushed from
\* the first stream are at every moment a prefix of the file's FASTA records
\* and, when the loop over the stream has ended, exactly those records, in
\* order; in single mode the run neither aborts nor crashes.
C9_Fasta ==
    (pc \notin {"spawn", "open", "detect"} /\ StartsWith(FirstLine, ">")) =>
        /\ pc # "exit_failure"
        /\ ~paired => pc # "crash"
        /\ IsPrefix(Pushed1, FastaRecords(In1Lines))
        /\ pc \in {"loop2", "pushedLast"} => Pushed1 = FastaRecords(In1Lines)

\* a FASTA file with a two-line record and a one-line record has been parsed
C9_Witness ==
    /\ pc = "pushedLast"
    /\ ~paired
    /\ ~isFastQ
    /\ Len(pushed) = 2
    /\ pushed[1].name = <<"r", "1">>
    /\ pushed[1].seq = <<"A", "C", "A", "C">>
    /\ pushed[2].seq = <<"A", "C">>

\* a valid FASTQ file: groups of four lines, each starting with an '@' line
ValidFastq ==
    /\ In1Lines # <<>>
    /\ Len(In1Lines) % 4 = 0
    /\ \A k \in 1..(Len(In1Lines) \div 4) : StartsWith(In1Lines[4 * k - 3], "@")

FastqRecords(ls) ==
    [k \in 1..(Len(ls) \div 4) |->
        [name |-> Tail(ls[4 * k - 3]), seq |-> Letters(ls[4 * k - 2])]]

Min(a, b) == IF a < b THEN a ELSE b

\* C10: for a valid FASTQ input the items pushed from the first stream are
\* at every moment a prefix of the file's four-line groups (identifier: the
\* first line without '@', sequence: the letters of the second line) and at
\* the end exactly those; after n records the stream stands at the start of
\* line 4n+1, whatever lines three and four of each group contain.
C10_Fastq ==
    (pc \notin {"spawn", "open", "detect"} /\ ValidFastq) =>
        /\ isFastQ
        /\ pc # "exit_failure"
        /\ ~paired => pc # "crash"
        /\ IsPrefix(Pushed1, FastqRecords(In1Lines))
        /\ pc \in {"loop2", "pushedLast"} => Pushed1 = FastqRecords(In1Lines)
        /\ pc = "loop1" =>
              in1_file.pos = Min(LineStart(In1Lines, 4 * Len(Pushed1) + 1),
                                 Len(in1_file.data) + 1)

\* two FASTQ records have been parsed, the first with a quality line that
\* starts with '@' and a separator line that starts with '>'
C10_Witness ==
    /\ pc = "pushedLast"
    /\ isFastQ
    /\ ValidFastq
    /\ Len(pushed) = 2
    /\ In1Lines[3] = <<">", "r", "1">>
    /\ In1Lines[4] = <<"@", "r", "2">>
    /\ pushed[2].seq = <<"A", "C">>

\* ------------------------------------------------------------------------
\* Properties of the paired mode
\* ------------------------------------------------------------------------
In2Lines == in2_filename.lines

\* a well-formed second stream: FASTA lines with a leading header and no
\* empty line, or whole groups of four lines that each start with '@'
ValidFastaLines(ls) ==
    /\ ls # <<>>
    /\ StartsWith(ls[1], ">")
    /\ \A i \in DOMAIN ls : ls[i] # <<>>

ValidFastqLines(ls) ==
    /\ ls # <<>>
    /\ Len(ls) % 4 = 0
    /\ \A k \in 1..(Len(ls) \div 4) : StartsWith(ls[4 * k - 3], "@")

Records2 == IF isFastQ THEN FastqRecords(In2Lines) ELSE FastaRecords(In2Lines)
ValidSecond ==
    /\ paired
    /\ in2_filename.kind = "file"
    /\ IF isFastQ THEN ValidFastqLines(In2Lines) ELSE ValidFastaLines(In2Lines)

In1Exhausted == ~good(in1_file) /\ in1_file.pos > Len(in1_file.data)

\* C11: while the second stream of a paired run is iterated, the items
\* pushed from it are the records of the second stream (identifier and
\* sequence of the same record, one item per record, in order), and the
\* first stream stays where its own loop left it.
C11_SecondStreamRecords ==
    (pc \in {"loop2", "push2", "pushedLast"} /\ ValidSecond) =>
        /\ IsPrefix(Pushed2, Records2)
        /\ pc = "pushedLast" => Pushed2 = Records2
        /\ in1_file.pos = Len(in1_file.data) + 1

\* C12: in the queue's push order no item of the second stream precedes an
\* item of the first stream, and the second stream is neither read nor
\* yields an item before the first stream is exhausted.
C12_StreamOrder ==
    /\ \A i, j \in DOMAIN pushed :
          (i < j /\ pushed[i].stream = 2) => pushed[j].stream = 2
    /\ (paired /\ pc \in {"loop1", "push1"}) =>
          in2_file = OpenStream(Bytes(in2_filename))
    /\ (Pushed2 # <<>> \/ (paired /\ in2_file # OpenStream(Bytes(in2_filename)))) =>
          /\ In1Exhausted
          /\ pc \notin {"loop1", "push1"}

\* a paired run that pushed an item of the first stream and then two of
\* the second
C12_Witness ==
    /\ pc = "pushedLast"
    /\ paired
    /\ Len(Pushed1) >= 1
    /\ Len(Pushed2) >= 2

\* ------------------------------------------------------------------------
\* Properties of the configuration (ConfigSpec)
\* ------------------------------------------------------------------------
NumericOptions == {"l", "s", "m", "e", "z"}

\* a numeric option whose argument is not a number that fits an int
Unparsed(o) == o.opt \in NumericOptions /\ stoi(o.arg.chars).err # "none"

\* the ranges the options must lie in
InRange(c, v) ==
    CASE c = "l" -> v >= 7
      [] c = "e" -> v >= 0
      [] OTHER -> v > 0

\* a numeric option whose argument is a number outside the option's range
Rejected(o) ==
    /\ o.opt \in NumericOptions
    /\ stoi(o.arg.chars).err = "none"
    /\ ~InRange(o.opt, stoi(o.arg.chars).val)

Given(c) == \E i \in DOMAIN argv : argv[i].opt = c
IsLast(i) == \A j \in DOMAIN argv : j > i => argv[j].opt # argv[i].opt

\* the command line is in error: an unparsable numeric argument, a numeric
\* option left at a value out of range, or no index or no primary input
ConfigurationError ==
    \/ \E i \in DOMAIN argv : Unparsed(argv[i])
    \/ \E i \in DOMAIN argv : IsLast(i) /\ Rejected(argv[i])
    \/ ~Given("f")
    \/ ~Given("i")

\* C13: when the command line is in error main never gets past the reading
\* and checking of the options: the queue is not constructed, no worker is
\* spawned and no input stream is opened.
C13_ConfigErrorsAbort ==
    ConfigurationError =>
        /\ pc \in {"getopt", "usage"}
        /\ "myWorkQueue" \notin live
        /\ spawned = 0
        /\ in1_file = ClosedStream
        /\ in2_file = ClosedStream

\* ------------------------------------------------------------------------
\* Properties of the shutdown and of ownership (Spec)
\* ------------------------------------------------------------------------
AllTerminated == \A w \in 1..spawned : wstate[w] = "done"

\* C14: the threads not yet joined are the last ones spawned, in spawn
\* order, and every join takes the oldest of them once it has terminated;
\* the queue and the configuration are deleted only when every spawned
\* worker has terminated and been joined, and at normal completion all
\* num_threads workers have.
C14_ShutdownOrder ==
    /\ [](/\ \A i \in DOMAIN threads : threads[i] = spawned - Len(threads) + i
          /\ ("myWorkQueue" \notin live \/ "config" \notin live) =>
                (threads = <<>> /\ AllTerminated)
          /\ pc = "done" =>
                /\ spawned = num_threads
                /\ AllTerminated
                /\ live = {})
    /\ [][(pc = "join" /\ threads' # threads) =>
             (threads' = Tail(threads) /\ wstate[Head(threads)] = "done")]_vars

\* a run with two workers and several items has completed and released the
\* queue and the configuration
C14_Witness ==
    /\ pc = "done"
    /\ num_threads = 2
    /\ Len(pushed) >= 2
    /\ "myWorkQueue" \notin live
    /\ "config" \notin live

\* how often the item with identity d is in the queue, is held by a worker,
\* has been popped
InQueue(d) == Cardinality({i \in DOMAIN myWorkQueue.items : myWorkQueue.items[i].id = d})
HeldBy(d) == {w \in Workers : witem[w].id = d}
PopsOf(d) == {i \in DOMAIN popped : popped[i].item.id = d}

\* C15: every push hands over a fresh item; an item that has not been
\* popped is in the queue exactly once and with no worker; an item that
\* has been popped was popped once, has left the queue for good, and is
\* held by at most one worker, the one that popped it, until that worker
\* discards it.
C15_ExclusiveOwnership ==
    /\ \A i, j \in DOMAIN pushed : i # j => pushed[i].id # pushed[j].id
    /\ \A k \in DOMAIN pushed :
         LET d == pushed[k].id
         IN  /\ InQueue(d) + Cardinality(HeldBy(d)) <= 1
             /\ PopsOf(d) = {} => (InQueue(d) = 1 /\ HeldBy(d) = {})
             /\ PopsOf(d) # {} =>
                   /\ Cardinality(PopsOf(d)) = 1
                   /\ InQueue(d) = 0
                   /\ \A w \in HeldBy(d) :
                         /\ wstate[w] = "work"
                         /\ \A i \in PopsOf(d) : popped[i].worker = w
    /\ \A w \in Workers : witem[w] # NoItem => witem[w] \in Range(pushed)

\* one item is in the queue, two others are each with a worker, and a
\* fourth has been discarded
C15_Witness ==
    /\ Len(myWorkQueue.items) >= 1
    /\ witem[1] # NoItem
    /\ witem[2] # NoItem
    /\ Len(popped) >= 3

\* C16: when main exits on a fatal input condition after workers were
\* spawned, completion has been signalled on the queue and every spawned
\* worker has terminated and been joined.
C16_OrderlyAbort ==
    (pc = "exit_failure" /\ spawned > 0) =>
        /\ signals >= 1
        /\ AllTerminated
        /\ threads = <<>>

\* ------------------------------------------------------------------------
\* Properties of the configuration's and the sink's lifetime (ConfigSpec)
\* ------------------------------------------------------------------------
\* C17: once a worker has been spawned every field of the configuration
\* has been assigned, the options from the validated locals, the index
\* handle and the output sink; and from the step that spawns the first
\* worker until main has joined the last one no step changes a field.
C17_ConfigFrozen ==
    /\ [](spawned >= 1 =>
            /\ DOMAIN config = ConfigFields
            /\ config.mode = locals.mode
            /\ config.min_score = locals.min_score
            /\ config.min_fragment_length = locals.min_fragment_length
            /\ config.seed_length = locals.seed_length
            /\ config.mismatches = locals.mismatches
            /\ config.bwt = "b"
            /\ config.out_stream =
                 (IF locals.output_filename = NotGiven THEN "cout" ELSE "read2id_file")
            /\ "config" \in live \/ pc = "done")
    /\ [][spawned' >= 1 => config' = config]_vars

\* a run configured with a mode other than the default has completed
C17_Witness ==
    /\ pc = "done"
    /\ spawned = 1
    /\ locals.mode = "GREEDYBLOSUM"
    /\ config.mode = "GREEDYBLOSUM"
    /\ Len(popped) >= 1

\* ------------------------------------------------------------------------
\* Properties of the parser on truncated input (ParseSpec)
\* ------------------------------------------------------------------------
\* the input ends in the middle of a record: a FASTQ file whose last group
\* has fewer than four lines, or a FASTA file whose last line is a header
TruncatedFastq(ls) ==
    /\ ls # <<>>
    /\ Len(ls) % 4 # 0
    /\ \A k \in 1..((Len(ls) + 3) \div 4) : StartsWith(ls[4 * k - 3], "@")

TruncatedFasta(ls) ==
    /\ ValidFastaLines(ls)
    /\ StartsWith(ls[Len(ls)], ">")

\* one record per group, the last one with the parts that are present
PartialFastqRecords(ls) ==
    [k \in 1..((Len(ls) + 3) \div 4) |->
        [name |-> Tail(ls[4 * k - 3]),
         seq |-> IF 4 * k - 2 <= Len(ls) THEN Letters(ls[4 * k - 2]) ELSE <<>>]]

ExpectedOfTruncated ==
    IF TruncatedFastq(In1Lines) THEN PartialFastqRecords(In1Lines)
    ELSE FastaRecords(In1Lines)

\* C18: on an input that ends in the middle of a record the producer pushes
\* one item per record, the last one with the identifier of its header and
\* the sequence that is present (empty when the sequence line is missing),
\* and reaches the end of its loop without exit or crash.
C18_TruncatedTail ==
    (/\ ~paired
     /\ pc # "detect"
     /\ TruncatedFastq(In1Lines) \/ TruncatedFasta(In1Lines)) =>
        /\ pc \notin {"exit_failure", "crash"}
        /\ IsPrefix(Pushed1, ExpectedOfTruncated)
        /\ pc = "pushedLast" => Pushed1 = ExpectedOfTruncated

\* ------------------------------------------------------------------------
\* Deadlock freedom (Spec)
\* ------------------------------------------------------------------------
\* main waits: in push on a full queue, or in join on a running thread
ProducerBlocked ==
    \/ pc \in {"push1", "push2"} /\ ~CanPush(myWorkQueue)
    \/ pc = "join" /\ threads # <<>> /\ ~Joinable(Head(threads))

\* worker w waits in pop: the queue is empty and completion is not signalled
WorkerBlocked(w) ==
    /\ wstate[w] = "pop"
    /\ ~CanPop(myWorkQueue)
    /\ ~NoMoreWork(myWorkQueue)

\* worker w can take no step: not started, returned, or waiting in pop
WorkerStopped(w) == wstate[w] \in {"none", "done"} \/ WorkerBlocked(w)

\* C19: while the process has neither completed nor exited, main and the
\* workers are never all waiting at once: when main waits, a worker can
\* take a step, and while a worker waits in pop, main is running and has
\* not yet signalled completion.
C19_DeadlockFree ==
    (pc # "done" /\ ~Dead) =>
        /\ ~(ProducerBlocked /\ \A w \in Workers : WorkerStopped(w))
        /\ ProducerBlocked => \E w \in 1..spawned : ~WorkerStopped(w)
        /\ \A w \in Workers :
              WorkerBlocked(w) => (~ProducerBlocked /\ pc # "join" /\ signals = 0)

\* main waits in push on a full queue while one worker classifies and the
\* other is about to pop
C19_Witness ==
    /\ pc = "push1"
    /\ ~CanPush(myWorkQueue)
    /\ wstate[1] = "work"
    /\ wstate[2] = "pop"

\* ------------------------------------------------------------------------
\* The output sink (ConfigSpec)
\* ------------------------------------------------------------------------
SinkIsFile == "out_stream" \in DOMAIN config /\ config.out_stream = "read2id_file"
Writes == Cardinality({i \in DOMAIN out_log : out_log[i] = "write"})

\* C20: no result is written to the sink after it was flushed, closed or
\* deleted; main flushes (and for a file closes and deletes) the sink only
\* when every worker has terminated and been joined; at normal completion
\* every popped item's result has been written and the log ends with the
\* flush, followed for a file by close and delete.
C20_SinkLifetime ==
    /\ \A i, j \in DOMAIN out_log :
          (i < j /\ out_log[i] # "write") => out_log[j] # "write"
    /\ (\E i \in DOMAIN out_log : out_log[i] # "write") =>
          /\ threads = <<>>
          /\ spawned = num_threads
          /\ AllTerminated
    /\ (SinkIsFile /\ "read2id_file" \notin live) => (pc = "done" /\ AllTerminated)
    /\ pc = "done" =>
          /\ Writes = Len(popped)
          /\ out_log = [i \in 1..Writes |-> "write"] \o SinkShutdown(locals)

\* a run that writes to a file has completed: one result written, then the
\* file flushed, closed and deleted
C20_Witness ==
    /\ pc = "done"
    /\ SinkIsFile
    /\ out_log = <<"write", "flush", "close", "delete">>

====
